---- MODULE Spec2Model ----
(***************************************************************************)
(* Buffer pool subsystem: BufferPoolManagerInstance over an                *)
(* ExtendibleHashTable page table and an LRUKReplacer.                     *)
(*                                                                         *)
(* Every public operation of the pool runs under latch_ from its first to  *)
(* its last statement, so each is one atomic action. The operations take   *)
(* any page id: none compares its argument with next_page_id_.             *)
(***************************************************************************)
EXTENDS Integers, Sequences, FiniteSets, TLC

(* ------------------------------ bounds --------------------------------- *)
\* the pool is constructed with pool_size in 1 .. MaxPoolSize
MaxPoolSize == 2
\* a behaviour makes at most MaxCalls calls, so current_timestamp_ stays below
\* MaxCalls too
MaxCalls == 6
\* one caller that keeps to the page ids 0 .. MaxRoundTripId and never calls
\* FlushAllPgsImp is followed for MaxRoundTripCalls calls
MaxRoundTripCalls == 8
MaxRoundTripId == 1
\* the page ids are 0 .. MaxPageId: the ids the callers name, and the ids
\* AllocatePage hands out before NewPgImp is no longer followed
MaxPageId == 2
\* page contents are 0 (all '\0' bytes) .. MaxData
MaxData == 1
\* the hash table on its own: keys 0 .. MaxKey, buckets of 1 .. MaxBucketSize pairs
MaxKey == 3
MaxBucketSize == 2
\* passes of Insert's loop followed; keys 0 .. MaxKey that differ are apart after
\* fewer passes, so a loop that takes more never ends
MaxSplits == 3
\* the pool called by threads 1 .. MaxThreads that make at most MaxThreadCalls calls
MaxThreads == 2
MaxThreadCalls == 4

(* --------------------------- program constants ------------------------- *)
\* replacer_k handed to the LRUKReplacer
K == 2
\* backward k-distance of a frame with fewer than k_ accesses
INF == 1000000
\* capacity of a page-table bucket
bucket_size_ == 4
INVALID_PAGE_ID == -1

PageIds == 0 .. MaxPageId
Data == 0 .. MaxData
\* page ids DiskManager::WritePage is called with (FlushAllPgsImp uses 0..pool_size_-1)
DiskIds == 0 .. (IF MaxPoolSize > MaxPageId THEN MaxPoolSize - 1 ELSE MaxPageId)
\* a call that returns no frame (nullptr)
NoFrame == -1
Threads == 1 .. MaxThreads
NoThread == 0
\* written[p] when no content of p is being followed
NoData == MaxData + 1

VARIABLES
  calls,          \* number of calls the behaviour is still followed for
  pool_size_,     \* number of frames
  pages_,         \* Page[pool_size_]: page_id_, pin_count_, is_dirty_, data_
  free_list_,     \* std::list<frame_id_t>
  page_table_,    \* ExtendibleHashTable<page_id_t, frame_id_t>
  replacer_,      \* LRUKReplacer
  next_page_id_,  \* the next page id AllocatePage returns
  disk,           \* DiskManager: the page contents by page id
  last,           \* the last call: its arguments, result and the WritePage calls it made
  written,        \* per page id: the content last unpinned dirty and not changed since
  latch_,         \* std::mutex latch_: the thread that holds it, and the one that held it before
  threads,        \* per thread: where it is in its call, and the call
  account         \* per page id: the pins handed out and given back since the page became
                  \* resident, and what has happened since its last UnpinPgImp

vars == <<calls, pool_size_, pages_, free_list_, page_table_, replacer_, next_page_id_, disk, last, written,
          latch_, threads, account>>
poolvars == <<pages_, free_list_, page_table_, replacer_, next_page_id_, disk>>

Frames == 0 .. (pool_size_ - 1)

(* ======================= LRUKReplacer =================================== *)

\* index of frame_id's node in the list (hash_[frame_id] is an iterator to it)
NodeIndex(list, frame_id) ==
  CHOOSE i \in 1 .. Len(list) : list[i][1] = frame_id

RemoveAt(list, i) ==
  SubSeq(list, 1, i - 1) \o SubSeq(list, i + 1, Len(list))

\* std::list::insert(pos, x): x goes in front of the node at index pos (Len+1 is end())
InsertBefore(list, pos, x) ==
  SubSeq(list, 1, pos - 1) \o <<x>> \o SubSeq(list, pos, Len(list))

\* std::list::remove(value): drops every node equal to value
ListRemove(list, value) ==
  SelectSeq(list, LAMBDA n : n # value)

\* std::list::splice(pos, list, it): moves the node at index it in front of the node at pos
Splice(list, pos, it) ==
  IF pos = it \/ pos = it + 1
    THEN list
    ELSE InsertBefore(RemoveAt(list, it), IF pos > it THEN pos - 1 ELSE pos, list[it])

\* timestamp_arr.back() - timestamp_arr.at(size - k_), INF below k_ accesses
KDistance(timestamp_arr, k) ==
  IF Len(timestamp_arr) >= k
    THEN timestamp_arr[Len(timestamp_arr)] - timestamp_arr[Len(timestamp_arr) - k + 1]
    ELSE INF

\* the scan without the tie-break on the first access: it walks past every node of
\* the same k-distance
RECURSIVE ScanPosition_NoTieBreak(_, _, _, _, _)
ScanPosition_NoTieBreak(list, l, curr_k_distance, first_ts, record) ==
  IF l > Len(list)
    THEN l
    ELSE IF list[l][2] <= curr_k_distance
           THEN ScanPosition_NoTieBreak(list, l + 1, curr_k_distance, first_ts, record)
           ELSE l

\* the while loop that walks l from begin() to the insertion point
RECURSIVE ScanPosition(_, _, _, _, _)
ScanPosition(list, l, curr_k_distance, first_ts, record) ==
  IF l > Len(list)
    THEN l
    ELSE IF (list[l][2] = curr_k_distance /\ first_ts < record[list[l][1]][1])
            \/ (list[l][2] < curr_k_distance)
           THEN ScanPosition(list, l + 1, curr_k_distance, first_ts, record)
           ELSE l

LRUKReplacer_New(num_frames, k) ==
  [ replacer_size_ |-> num_frames,
    k_ |-> k,
    record_ |-> [f \in 0 .. (num_frames - 1) |-> <<>>],
    lru_replacer_ |-> <<>>,
    hash_ |-> {},
    current_timestamp_ |-> 0,
    curr_size_ |-> 0 ]

\* Evict with curr_size_-- moved in front of the emptiness test
Evict_CountsFailure(r) ==
  IF r.lru_replacer_ = <<>>
    THEN [ok |-> FALSE, frame_id |-> NoFrame, r |-> [r EXCEPT !.curr_size_ = r.curr_size_ - 1]]
    ELSE LET f_id == r.lru_replacer_[Len(r.lru_replacer_)][1]
         IN [ok |-> TRUE,
             frame_id |-> f_id,
             r |-> [r EXCEPT !.record_[f_id] = <<>>,
                             !.lru_replacer_ = SubSeq(r.lru_replacer_, 1, Len(r.lru_replacer_) - 1),
                             !.hash_ = r.hash_ \ {f_id},
                             !.curr_size_ = r.curr_size_ - 1]]

\* returns [ok, frame_id, r]
LRUKReplacer_Evict(r) ==
  IF r.lru_replacer_ = <<>>
    THEN [ok |-> FALSE, frame_id |-> NoFrame, r |-> r]
    ELSE LET f_id == r.lru_replacer_[Len(r.lru_replacer_)][1]
         IN [ok |-> TRUE,
             frame_id |-> f_id,
             r |-> [r EXCEPT !.record_[f_id] = <<>>,
                             !.lru_replacer_ = SubSeq(r.lru_replacer_, 1, Len(r.lru_replacer_) - 1),
                             !.hash_ = r.hash_ \ {f_id},
                             !.curr_size_ = r.curr_size_ - 1]]

LRUKReplacer_RecordAccess(r, frame_id) ==
  LET record == [r.record_ EXCEPT ![frame_id] = Append(@, r.current_timestamp_)]
      timestamp_arr == record[frame_id]
  IN IF frame_id \in r.hash_
       THEN LET it == NodeIndex(r.lru_replacer_, frame_id)
                curr_k_distance == KDistance(timestamp_arr, r.k_)
                list == IF Len(timestamp_arr) >= r.k_
                          THEN [r.lru_replacer_ EXCEPT ![it] = <<frame_id, curr_k_distance>>]
                          ELSE r.lru_replacer_
                l == ScanPosition(list, 1, curr_k_distance, timestamp_arr[1], record)
            IN [r EXCEPT !.record_ = record,
                         !.lru_replacer_ = Splice(list, l, it),
                         !.current_timestamp_ = r.current_timestamp_ + 1]
       ELSE [r EXCEPT !.record_ = record,
                      !.current_timestamp_ = r.current_timestamp_ + 1]

\* SetEvictable that counts every set_evictable = true, also of an evictable frame
SetEvictable_CountsAlways(r, frame_id, set_evictable) ==
  LET timestamp_arr == r.record_[frame_id]
  IN IF set_evictable /\ frame_id \notin r.hash_
       THEN LET curr_k_distance == KDistance(timestamp_arr, r.k_)
                l == ScanPosition(r.lru_replacer_, 1, curr_k_distance, timestamp_arr[1], r.record_)
            IN [r EXCEPT !.lru_replacer_ = InsertBefore(r.lru_replacer_, l, <<frame_id, curr_k_distance>>),
                         !.hash_ = r.hash_ \cup {frame_id},
                         !.curr_size_ = r.curr_size_ + 1]
       ELSE IF ~set_evictable /\ frame_id \in r.hash_
              THEN [r EXCEPT !.lru_replacer_ =
                                ListRemove(r.lru_replacer_, r.lru_replacer_[NodeIndex(r.lru_replacer_, frame_id)]),
                             !.hash_ = r.hash_ \ {frame_id},
                             !.curr_size_ = r.curr_size_ - 1]
              ELSE IF set_evictable THEN [r EXCEPT !.curr_size_ = r.curr_size_ + 1] ELSE r

LRUKReplacer_SetEvictable(r, frame_id, set_evictable) ==
  LET timestamp_arr == r.record_[frame_id]
  IN IF set_evictable /\ frame_id \notin r.hash_
       THEN LET curr_k_distance == KDistance(timestamp_arr, r.k_)
                l == ScanPosition(r.lru_replacer_, 1, curr_k_distance, timestamp_arr[1], r.record_)
            IN [r EXCEPT !.lru_replacer_ = InsertBefore(r.lru_replacer_, l, <<frame_id, curr_k_distance>>),
                         !.hash_ = r.hash_ \cup {frame_id},
                         !.curr_size_ = r.curr_size_ + 1]
       ELSE IF ~set_evictable /\ frame_id \in r.hash_
              THEN [r EXCEPT !.lru_replacer_ =
                                ListRemove(r.lru_replacer_, r.lru_replacer_[NodeIndex(r.lru_replacer_, frame_id)]),
                             !.hash_ = r.hash_ \ {frame_id},
                             !.curr_size_ = r.curr_size_ - 1]
              ELSE r

\* Remove that unlinks the frame but keeps its access history
Remove_KeepsRecord(r, frame_id) ==
  IF frame_id \notin r.hash_
    THEN r
    ELSE [r EXCEPT !.lru_replacer_ =
                      ListRemove(r.lru_replacer_, r.lru_replacer_[NodeIndex(r.lru_replacer_, frame_id)]),
                   !.hash_ = r.hash_ \ {frame_id},
                   !.curr_size_ = r.curr_size_ - 1]

LRUKReplacer_Remove(r, frame_id) ==
  IF frame_id \notin r.hash_
    THEN r
    ELSE [r EXCEPT !.record_[frame_id] = <<>>,
                   !.lru_replacer_ =
                      ListRemove(r.lru_replacer_, r.lru_replacer_[NodeIndex(r.lru_replacer_, frame_id)]),
                   !.hash_ = r.hash_ \ {frame_id},
                   !.curr_size_ = r.curr_size_ - 1]

LRUKReplacer_Size(r) == r.curr_size_

(* ======================= ExtendibleHashTable ============================ *)

\* std::hash<int> is the identity; key & ((1 << global_depth_) - 1)
IndexOf(t, key) == key % (2 ^ t.global_depth_)

ExtendibleHashTable_New(bucket_size) ==
  [ global_depth_ |-> 0,
    bucket_size_ |-> bucket_size,
    num_buckets_ |-> 1,
    dir_ |-> [i \in {0} |-> 1],
    buckets |-> << [size_ |-> bucket_size, depth_ |-> 0, list_ |-> <<>>] >> ]

Bucket_IsFull(b) == Len(b.list_) = b.size_

Bucket_HasKey(b, key) == \E i \in 1 .. Len(b.list_) : b.list_[i][1] = key

\* Bucket::Find: the value of the first pair with this key
Bucket_Find(b, key) ==
  b.list_[CHOOSE i \in 1 .. Len(b.list_) :
            b.list_[i][1] = key /\ \A j \in 1 .. (i - 1) : b.list_[j][1] # key][2]

\* Bucket::Remove: list.remove(c) for the first pair c with this key
Bucket_Remove(b, key) ==
  IF Bucket_HasKey(b, key)
    THEN [b EXCEPT !.list_ = ListRemove(b.list_, <<key, Bucket_Find(b, key)>>)]
    ELSE b

\* Bucket::Insert: refused when full, else update every pair with the key or push_back
Bucket_Insert(b, key, value) ==
  IF Bucket_IsFull(b)
    THEN b
    ELSE IF Bucket_HasKey(b, key)
           THEN [b EXCEPT !.list_ =
                   [i \in 1 .. Len(b.list_) |->
                      IF b.list_[i][1] = key THEN <<key, value>> ELSE b.list_[i]]]
           ELSE [b EXCEPT !.list_ = Append(b.list_, <<key, value>>)]

\* returns [found, value]
ExtendibleHashTable_Find(t, key) ==
  LET b == t.buckets[t.dir_[IndexOf(t, key)]]
  IN IF Bucket_HasKey(b, key)
       THEN [found |-> TRUE, value |-> Bucket_Find(b, key)]
       ELSE [found |-> FALSE, value |-> NoFrame]

\* returns [ok, t]: the first directory slot whose bucket holds the key loses it
ExtendibleHashTable_Remove(t, key) ==
  LET hit == {i \in DOMAIN t.dir_ : Bucket_HasKey(t.buckets[t.dir_[i]], key)}
  IN IF hit = {}
       THEN [ok |-> FALSE, t |-> t]
       ELSE LET i == CHOOSE x \in hit : \A y \in hit : x <= y
                id == t.dir_[i]
            IN [ok |-> TRUE,
                t |-> [t EXCEPT !.buckets[id] = Bucket_Remove(t.buckets[id], key)]]

RECURSIVE InsertAll(_, _)
InsertAll(b, items) ==
  IF items = <<>> THEN b
  ELSE InsertAll(Bucket_Insert(b, Head(items)[1], Head(items)[2]), Tail(items))

RECURSIVE RemoveAll(_, _)
RemoveAll(list, del) ==
  IF del = <<>> THEN list ELSE RemoveAll(ListRemove(list, Head(del)), Tail(del))

\* RedistributeBucket without its second loop: the moved pairs stay in bucket too
Redistribute_KeepsOld(t, bucket, new_bucket) ==
  LET list == t.buckets[bucket].list_
      del == SelectSeq(list, LAMBDA elem : t.dir_[IndexOf(t, elem[1])] = new_bucket)
  IN [t EXCEPT !.buckets[new_bucket] = InsertAll(t.buckets[new_bucket], del)]

\* the pairs of bucket whose directory slot now points to new_bucket move there
RedistributeBucket(t, bucket, new_bucket) ==
  LET list == t.buckets[bucket].list_
      del == SelectSeq(list, LAMBDA elem : t.dir_[IndexOf(t, elem[1])] = new_bucket)
  IN [t EXCEPT !.buckets[new_bucket] = InsertAll(t.buckets[new_bucket], del),
               !.buckets[bucket].list_ = RemoveAll(list, del)]

\* one pass of the while (bucket->IsFull()) loop body
SplitBucket(t, key) ==
  LET origin_index == IndexOf(t, key)
      bucket == t.dir_[origin_index]
      n == 2 ^ t.global_depth_
      grow == t.buckets[bucket].depth_ = t.global_depth_
      t1 == IF grow
              THEN [t EXCEPT !.global_depth_ = t.global_depth_ + 1,
                             !.dir_ = [i \in 0 .. (2 * n - 1) |->
                                         IF i < n THEN t.dir_[i] ELSE t.dir_[i % n]]]
              ELSE t
      depth == t.buckets[bucket].depth_ + 1
      new_bucket == Len(t.buckets) + 1
      cur == 2 ^ depth
      pre == 2 ^ (depth - 1)
      t2 == [t1 EXCEPT
               !.buckets = Append([t1.buckets EXCEPT ![bucket].depth_ = depth],
                                  [size_ |-> t.bucket_size_, depth_ |-> depth, list_ |-> <<>>]),
               !.num_buckets_ = t.num_buckets_ + 1,
               !.dir_ = [i \in DOMAIN t1.dir_ |->
                           IF (i % pre) = (origin_index % pre) /\ ((i % cur) \div pre) = 1
                             THEN new_bucket
                             ELSE t1.dir_[i]]]
  IN RedistributeBucket(t2, bucket, new_bucket)

\* the loop that splits as soon as the bucket would be full with the new pair
RECURSIVE InsertLoop_Eager(_, _, _)
InsertLoop_Eager(t, key, fuel) ==
  IF Len(t.buckets[t.dir_[IndexOf(t, key)]].list_) + 1 >= t.bucket_size_ /\ fuel > 0
    THEN InsertLoop_Eager(SplitBucket(t, key), key, fuel - 1)
    ELSE t

\* while (bucket->IsFull()) { ... }: the table after the loop, cut after fuel passes
RECURSIVE InsertLoop(_, _, _)
InsertLoop(t, key, fuel) ==
  IF Bucket_IsFull(t.buckets[t.dir_[IndexOf(t, key)]]) /\ fuel > 0
    THEN InsertLoop(SplitBucket(t, key), key, fuel - 1)
    ELSE t

\* the loop of Insert comes to an end within MaxSplits passes
Insert_Returns(t, key) ==
  LET t1 == InsertLoop(t, key, MaxSplits)
  IN ~Bucket_IsFull(t1.buckets[t1.dir_[IndexOf(t1, key)]])

\* Insert that stores the pair without looking for room
Insert_NoSplit(t, key, value) ==
  LET bucket == t.dir_[IndexOf(t, key)]
      b == t.buckets[bucket]
  IN [t EXCEPT !.buckets[bucket].list_ =
        IF Bucket_HasKey(b, key)
          THEN [i \in 1 .. Len(b.list_) |-> IF b.list_[i][1] = key THEN <<key, value>> ELSE b.list_[i]]
          ELSE Append(b.list_, <<key, value>>)]

\* Insert that asks for room once and then stores the pair
Insert_SplitsOnce(t, key, value) ==
  LET t1 == InsertLoop(t, key, 1)
      bucket == t1.dir_[IndexOf(t1, key)]
  IN [t1 EXCEPT !.buckets[bucket] = Bucket_Insert(t1.buckets[bucket], key, value)]

\* the loop, then bucket->Insert(key, value)
ExtendibleHashTable_Insert(t, key, value) ==
  LET t1 == InsertLoop(t, key, MaxSplits)
      bucket == t1.dir_[IndexOf(t1, key)]
  IN [t1 EXCEPT !.buckets[bucket] = Bucket_Insert(t1.buckets[bucket], key, value)]

(* ======================= BufferPoolManagerInstance ====================== *)

\* the record of a call: arguments, result (ok, frame, and for NewPgImp the page id),
\* the page the acquired frame held when it came from the replacer, the WritePage calls
Call(op, page_id, is_dirty, ok, frame, evicted, writes) ==
  [op |-> op, page_id |-> page_id, is_dirty |-> is_dirty, ok |-> ok, frame |-> frame,
   evicted |-> evicted, writes |-> writes]

\* a thread that is in no call
Idle == [pc |-> "idle", op |-> "none", page_id |-> INVALID_PAGE_ID, is_dirty |-> FALSE]
\* a page that is not resident and has not been unpinned
NoAccount == [count |-> 0, frame |-> NoFrame, by |-> NoThread, acquired |-> FALSE, deleted |-> FALSE]

\* one more call on the same pool
Called ==
  /\ calls > 0
  /\ calls' = calls - 1
  /\ UNCHANGED pool_size_

\* the pool as its constructor leaves it
Constructed ==
  /\ pool_size_ \in 1 .. MaxPoolSize
  /\ pages_ = [f \in Frames |->
                [page_id_ |-> INVALID_PAGE_ID, pin_count_ |-> 0, is_dirty_ |-> FALSE, data_ |-> 0]]
  /\ free_list_ = [i \in 1 .. pool_size_ |-> i - 1]
  /\ page_table_ = ExtendibleHashTable_New(bucket_size_)
  /\ replacer_ = LRUKReplacer_New(pool_size_, K)
  /\ next_page_id_ = 0
  /\ disk = [p \in DiskIds |-> 0]
  /\ last = Call("init", INVALID_PAGE_ID, FALSE, TRUE, NoFrame, INVALID_PAGE_ID, <<>>)
  /\ written = [p \in PageIds |-> NoData]
  /\ latch_ = [holder |-> NoThread, before |-> NoThread]
  /\ threads = [t \in Threads |-> Idle]
  /\ account = [p \in PageIds |-> NoAccount]

Init ==
  /\ calls = MaxCalls
  /\ Constructed

\* AcquireFrame without free_list_.pop_front()
AcquireFrame_NoPop(pages, free_list, r) ==
  IF free_list # <<>>
    THEN [ok |-> TRUE, f_id |-> Head(free_list), free_list |-> free_list, r |-> r,
          evicted |-> INVALID_PAGE_ID]
    ELSE LET e == LRUKReplacer_Evict(r)
         IN [ok |-> e.ok, f_id |-> e.frame_id, free_list |-> free_list, r |-> e.r,
             evicted |-> IF e.ok THEN pages[e.frame_id].page_id_ ELSE INVALID_PAGE_ID]

\* a frame from the free list, else from the replacer: [ok, f_id, free_list, r, evicted]
AcquireFrame(pages, free_list, r) ==
  IF free_list # <<>>
    THEN [ok |-> TRUE, f_id |-> Head(free_list), free_list |-> Tail(free_list), r |-> r,
          evicted |-> INVALID_PAGE_ID]
    ELSE LET e == LRUKReplacer_Evict(r)
         IN [ok |-> e.ok, f_id |-> e.frame_id, free_list |-> free_list, r |-> e.r,
             evicted |-> IF e.ok THEN pages[e.frame_id].page_id_ ELSE INVALID_PAGE_ID]

\* WriteBack that writes a dirty frame and leaves its flag set
WriteBack_KeepsDirty(fm, d) ==
  IF fm.is_dirty_
    THEN [disk |-> [d EXCEPT ![fm.page_id_] = fm.data_],
          is_dirty_ |-> TRUE,
          writes |-> << <<fm.page_id_, fm.data_>> >>]
    ELSE [disk |-> d, is_dirty_ |-> fm.is_dirty_, writes |-> <<>>]

\* if (fm->is_dirty_) { WritePage(fm->page_id_, fm->data_); fm->is_dirty_ = false; }
\* returns [disk, is_dirty_, writes]
WriteBack(fm, d) ==
  IF fm.is_dirty_
    THEN [disk |-> [d EXCEPT ![fm.page_id_] = fm.data_],
          is_dirty_ |-> FALSE,
          writes |-> << <<fm.page_id_, fm.data_>> >>]
    ELSE [disk |-> d, is_dirty_ |-> fm.is_dirty_, writes |-> <<>>]

\* replacer_->RecordAccess(f_id); replacer_->SetEvictable(f_id, false);
PinInReplacer(r, f_id) ==
  LRUKReplacer_SetEvictable(LRUKReplacer_RecordAccess(r, f_id), f_id, FALSE)

\* a call that reaches AllocatePage is followed while the id it returns is at
\* most MaxPageId
NewPgImp ==
  /\ Called
  /\ LET acq == AcquireFrame(pages_, free_list_, replacer_)
     IN /\ acq.ok => next_page_id_ \in PageIds
        /\ IF ~acq.ok
             THEN /\ last' = Call("new_page", INVALID_PAGE_ID, FALSE, FALSE, NoFrame, INVALID_PAGE_ID, <<>>)
                  /\ replacer_' = acq.r
                  /\ UNCHANGED <<pages_, free_list_, page_table_, next_page_id_, disk, written>>
             ELSE LET f_id == acq.f_id
                      fm == pages_[f_id]
                      wb == WriteBack(fm, disk)
                      t == ExtendibleHashTable_Insert(
                             ExtendibleHashTable_Remove(page_table_, fm.page_id_).t,
                             next_page_id_, f_id)
                  IN /\ free_list_' = acq.free_list
                     /\ disk' = wb.disk
                     /\ page_table_' = t
                     /\ replacer_' = PinInReplacer(acq.r, f_id)
                     /\ pages_' = [pages_ EXCEPT ![f_id] =
                                     [page_id_ |-> next_page_id_,
                                      pin_count_ |-> fm.pin_count_ + 1,
                                      is_dirty_ |-> wb.is_dirty_,
                                      data_ |-> 0]]
                     /\ next_page_id_' = next_page_id_ + 1
                     /\ last' = Call("new_page", next_page_id_, FALSE, TRUE, f_id, acq.evicted, wb.writes)
                     /\ written' = [written EXCEPT ![next_page_id_] = NoData]

FetchPgImp(page_id) ==
  /\ Called
  /\ LET find == ExtendibleHashTable_Find(page_table_, page_id)
         acq == AcquireFrame(pages_, free_list_, replacer_)
     IN IF find.found
          THEN LET f_id == find.value
               IN /\ replacer_' = PinInReplacer(replacer_, f_id)
                  /\ pages_' = [pages_ EXCEPT ![f_id].page_id_ = page_id,
                                              ![f_id].pin_count_ = @ + 1]
                  /\ last' = Call("fetch_page", page_id, FALSE, TRUE, f_id, INVALID_PAGE_ID, <<>>)
                  /\ UNCHANGED <<free_list_, page_table_, next_page_id_, disk, written>>
          ELSE IF ~acq.ok
                 THEN /\ last' = Call("fetch_page", page_id, FALSE, FALSE, NoFrame, INVALID_PAGE_ID, <<>>)
                      /\ replacer_' = acq.r
                      /\ UNCHANGED <<pages_, free_list_, page_table_, next_page_id_, disk, written>>
                 ELSE LET f_id == acq.f_id
                          fm == pages_[f_id]
                          wb == WriteBack(fm, disk)
                          t == ExtendibleHashTable_Insert(
                                 ExtendibleHashTable_Remove(page_table_, fm.page_id_).t,
                                 page_id, f_id)
                      IN /\ free_list_' = acq.free_list
                         /\ disk' = wb.disk
                         /\ page_table_' = t
                         /\ replacer_' = PinInReplacer(acq.r, f_id)
                         /\ pages_' = [pages_ EXCEPT ![f_id] =
                                         [page_id_ |-> page_id,
                                          pin_count_ |-> fm.pin_count_ + 1,
                                          is_dirty_ |-> wb.is_dirty_,
                                          data_ |-> wb.disk[page_id]]]
                         /\ last' = Call("fetch_page", page_id, FALSE, TRUE, f_id, acq.evicted, wb.writes)
                         /\ UNCHANGED <<next_page_id_, written>>

\* the flag assigned from the argument whatever it was
MergeDirty_Overwrites(current_dirty, is_dirty) == is_dirty

\* if (!pg->is_dirty_) { pg->is_dirty_ = is_dirty; }
MergeDirty(current_dirty, is_dirty) ==
  IF ~current_dirty THEN is_dirty ELSE current_dirty

\* UnpinPgImp without the test of pin_count_ <= 0
UnpinPgImp_NoGuard(page_id, is_dirty) ==
  /\ Called
  /\ LET find == ExtendibleHashTable_Find(page_table_, page_id)
     IN IF ~find.found
       THEN /\ last' = Call("unpin_page", page_id, is_dirty, FALSE, NoFrame, INVALID_PAGE_ID, <<>>)
            /\ UNCHANGED <<poolvars, written>>
       ELSE LET f_id == find.value
                pg == pages_[f_id]
            IN /\ replacer_' = IF pg.pin_count_ - 1 = 0
                                 THEN LRUKReplacer_SetEvictable(replacer_, f_id, TRUE)
                                 ELSE replacer_
               /\ pages_' = [pages_ EXCEPT ![f_id].pin_count_ = pg.pin_count_ - 1,
                                           ![f_id].is_dirty_ = MergeDirty(pg.is_dirty_, is_dirty)]
               /\ last' = Call("unpin_page", page_id, is_dirty, TRUE, f_id, INVALID_PAGE_ID, <<>>)
               /\ written' = IF is_dirty THEN [written EXCEPT ![page_id] = pg.data_] ELSE written
               /\ UNCHANGED <<free_list_, page_table_, next_page_id_, disk>>

UnpinPgImp(page_id, is_dirty) ==
  /\ Called
  /\ LET find == ExtendibleHashTable_Find(page_table_, page_id)
     IN IF ~find.found \/ pages_[find.value].pin_count_ <= 0
       THEN /\ last' = Call("unpin_page", page_id, is_dirty, FALSE, NoFrame, INVALID_PAGE_ID, <<>>)
            /\ UNCHANGED <<poolvars, written>>
       ELSE LET f_id == find.value
                pg == pages_[f_id]
            IN /\ replacer_' = IF pg.pin_count_ - 1 = 0
                                 THEN LRUKReplacer_SetEvictable(replacer_, f_id, TRUE)
                                 ELSE replacer_
               /\ pages_' = [pages_ EXCEPT ![f_id].pin_count_ = pg.pin_count_ - 1,
                                           ![f_id].is_dirty_ = MergeDirty(pg.is_dirty_, is_dirty)]
               /\ last' = Call("unpin_page", page_id, is_dirty, TRUE, f_id, INVALID_PAGE_ID, <<>>)
               /\ written' = IF is_dirty THEN [written EXCEPT ![page_id] = pg.data_] ELSE written
               /\ UNCHANGED <<free_list_, page_table_, next_page_id_, disk>>

\* FlushPgImp that skips the write of a clean page
FlushPgImp_OnlyDirty(page_id) ==
  /\ Called
  /\ LET find == ExtendibleHashTable_Find(page_table_, page_id)
     IN IF ~find.found
       THEN /\ last' = Call("flush_page", page_id, FALSE, FALSE, NoFrame, INVALID_PAGE_ID, <<>>)
            /\ UNCHANGED <<poolvars, written>>
       ELSE LET f_id == find.value
                dirty == pages_[f_id].is_dirty_
            IN /\ disk' = IF dirty THEN [disk EXCEPT ![page_id] = pages_[f_id].data_] ELSE disk
               /\ pages_' = [pages_ EXCEPT ![f_id].is_dirty_ = FALSE]
               /\ last' = Call("flush_page", page_id, FALSE, TRUE, f_id, INVALID_PAGE_ID,
                               IF dirty THEN << <<page_id, pages_[f_id].data_>> >> ELSE <<>>)
               /\ UNCHANGED <<free_list_, page_table_, replacer_, next_page_id_, written>>

FlushPgImp(page_id) ==
  /\ Called
  /\ LET find == ExtendibleHashTable_Find(page_table_, page_id)
     IN IF ~find.found
       THEN /\ last' = Call("flush_page", page_id, FALSE, FALSE, NoFrame, INVALID_PAGE_ID, <<>>)
            /\ UNCHANGED <<poolvars, written>>
       ELSE LET f_id == find.value
            IN /\ disk' = [disk EXCEPT ![page_id] = pages_[f_id].data_]
               /\ pages_' = [pages_ EXCEPT ![f_id].is_dirty_ = FALSE]
               /\ last' = Call("flush_page", page_id, FALSE, TRUE, f_id, INVALID_PAGE_ID,
                               << <<page_id, pages_[f_id].data_>> >>)
               /\ UNCHANGED <<free_list_, page_table_, replacer_, next_page_id_, written>>

\* for (i = 0; i < pool_size_; ++i) { WritePage(i, pages_[i].data_); pages_[i].is_dirty_ = false; }
FlushAllPgsImp ==
  /\ Called
  /\ disk' = [p \in DiskIds |-> IF p < pool_size_ THEN pages_[p].data_ ELSE disk[p]]
  /\ pages_' = [f \in Frames |-> [pages_[f] EXCEPT !.is_dirty_ = FALSE]]
  /\ last' = Call("flush_all_pages", INVALID_PAGE_ID, FALSE, TRUE, NoFrame, INVALID_PAGE_ID,
                  [i \in 1 .. pool_size_ |-> <<i - 1, pages_[i - 1].data_>>])
  /\ written' = [p \in PageIds |-> NoData]
  /\ UNCHANGED <<free_list_, page_table_, replacer_, next_page_id_>>

DeletePgImp(page_id) ==
  /\ Called
  /\ LET find == ExtendibleHashTable_Find(page_table_, page_id)
     IN IF ~find.found
       THEN /\ last' = Call("delete_page", page_id, FALSE, TRUE, NoFrame, INVALID_PAGE_ID, <<>>)
            /\ written' = [written EXCEPT ![page_id] = NoData]
            /\ UNCHANGED poolvars
       ELSE IF pages_[find.value].pin_count_ > 0
              THEN /\ last' = Call("delete_page", page_id, FALSE, FALSE, find.value, INVALID_PAGE_ID, <<>>)
                   /\ written' = [written EXCEPT ![page_id] = NoData]
                   /\ UNCHANGED poolvars
              ELSE LET f_id == find.value
                   IN /\ page_table_' = ExtendibleHashTable_Remove(page_table_, page_id).t
                      /\ replacer_' = LRUKReplacer_Remove(replacer_, f_id)
                      /\ free_list_' = Append(free_list_, f_id)
                      /\ pages_' = [pages_ EXCEPT ![f_id] =
                                      [page_id_ |-> INVALID_PAGE_ID, pin_count_ |-> 0,
                                       is_dirty_ |-> FALSE, data_ |-> 0]]
                      /\ last' = Call("delete_page", page_id, FALSE, TRUE, f_id, INVALID_PAGE_ID, <<>>)
                      /\ written' = [written EXCEPT ![page_id] = NoData]
                      /\ UNCHANGED <<next_page_id_, disk>>

\* the holder of a pin writes the page through the Page * it was handed
WritePageData(f_id, d) ==
  LET page_id == pages_[f_id].page_id_
      find == ExtendibleHashTable_Find(page_table_, page_id)
  IN /\ Called
     /\ pages_[f_id].pin_count_ > 0
     /\ pages_' = [pages_ EXCEPT ![f_id].data_ = d]
     /\ last' = Call("write", page_id, FALSE, TRUE, f_id, INVALID_PAGE_ID, <<>>)
     /\ written' = IF find.found /\ find.value = f_id
                     THEN [written EXCEPT ![page_id] = NoData]
                     ELSE written
     /\ UNCHANGED <<free_list_, page_table_, replacer_, next_page_id_, disk>>

\* one caller: the latch is free before and after every call
Sequential == UNCHANGED <<latch_, threads, account>>

\* the caller names any page id: no operation tests its argument against
\* next_page_id_
Next ==
  \/ NewPgImp /\ Sequential
  \/ \E p \in PageIds : FetchPgImp(p) /\ Sequential
  \/ \E p \in PageIds, d \in BOOLEAN : UnpinPgImp(p, d) /\ Sequential
  \/ \E p \in PageIds : FlushPgImp(p) /\ Sequential
  \/ FlushAllPgsImp /\ Sequential
  \/ \E p \in PageIds : DeletePgImp(p) /\ Sequential
  \/ \E f \in Frames, d \in Data : WritePageData(f, d) /\ Sequential

Spec == Init /\ [][Next]_vars

\* the calls the round trip of a page is stated over: every operation but
\* FlushAllPgsImp, by one caller
InitRoundTrip ==
  /\ calls = MaxRoundTripCalls
  /\ Constructed

RoundTripIds == 0 .. MaxRoundTripId

NextRoundTrip ==
  \/ NewPgImp /\ Sequential
  \/ \E p \in RoundTripIds : FetchPgImp(p) /\ Sequential
  \/ \E p \in RoundTripIds, d \in BOOLEAN : UnpinPgImp(p, d) /\ Sequential
  \/ \E p \in RoundTripIds : FlushPgImp(p) /\ Sequential
  \/ \E p \in RoundTripIds : DeletePgImp(p) /\ Sequential
  \/ \E f \in Frames, d \in Data : WritePageData(f, d) /\ Sequential

SpecRoundTrip == InitRoundTrip /\ [][NextRoundTrip]_vars

(* ============================ observers ================================= *)

Resident(p) == ExtendibleHashTable_Find(page_table_, p).found
FrameOf(p) == ExtendibleHashTable_Find(page_table_, p).value
FreeSet == {free_list_[i] : i \in 1 .. Len(free_list_)}
PinnedSet == {f \in Frames : pages_[f].pin_count_ > 0}
EvictableSet == {replacer_.lru_replacer_[i][1] : i \in 1 .. Len(replacer_.lru_replacer_)}
\* how many pairs of the table carry this key
Copies(p) ==
  LET ids == {page_table_.dir_[i] : i \in DOMAIN page_table_.dir_}
      Hits(b) == Cardinality({i \in 1 .. Len(page_table_.buckets[b].list_) :
                               page_table_.buckets[b].list_[i][1] = p})
      RECURSIVE Sum(_)
      Sum(S) == IF S = {} THEN 0 ELSE LET b == CHOOSE x \in S : TRUE IN Hits(b) + Sum(S \ {b})
  IN Sum(ids)
\* the step was a call of op
Step(op) == last'.op = op

(* ============================== claims ================================== *)

\* C1: a pinned page is never evicted. Whatever the call, a page that is resident
\* in frame f with pin_count_ > 0 is afterwards still mapped to f, f still holds
\* it and f is not in the free list; and in a pool of two frames with one page
\* pinned and the other unpinned, NewPgImp returns the frame of the unpinned one.
C1_PinnedNeverEvicted ==
  [][ /\ \A p \in PageIds :
          (Resident(p) /\ pages_[FrameOf(p)].pin_count_ > 0)
            => /\ Resident(p)'
               /\ FrameOf(p)' = FrameOf(p)
               /\ pages_'[FrameOf(p)].page_id_ = p
               /\ FrameOf(p) \notin FreeSet'
      /\ \A p, q \in PageIds :
          ( /\ Step("new_page")
            /\ pool_size_ = 2 /\ p # q /\ Resident(p) /\ Resident(q)
            /\ pages_[FrameOf(p)].pin_count_ > 0
            /\ pages_[FrameOf(q)].pin_count_ = 0 )
            => /\ last'.ok
               /\ last'.frame = FrameOf(q)
               /\ last'.evicted = q
               /\ ~Resident(q)' ]_vars

\* C2: round trip of dirty data. For a page p that NewPgImp has returned,
\* written[p] is the content B of its frame when it was last unpinned with
\* is_dirty = true; it is reset by a later write into that frame, by
\* DeletePgImp(p) and by FlushAllPgsImp. Every FetchPgImp(p) that returns a frame
\* while written[p] is set returns a frame whose data is B, whether p stayed
\* resident or was evicted and read again.
C2_RoundTrip ==
  ( /\ last.op = "fetch_page" /\ last.ok
    /\ last.page_id < next_page_id_
    /\ written[last.page_id] # NoData )
    => pages_[last.frame].data_ = written[last.page_id]

\* C3: FlushAllPgsImp writes every resident page under its own page id, and
\* writes under no page id that is not resident.
C3_FlushAllResidentOnly ==
  last.op = "flush_all_pages"
    => /\ \A p \in PageIds :
            Resident(p) =>
              \E i \in 1 .. Len(last.writes) :
                 last.writes[i] = <<p, pages_[FrameOf(p)].data_>>
       /\ \A i \in 1 .. Len(last.writes) :
            /\ last.writes[i][1] \in PageIds
            /\ Resident(last.writes[i][1])
            /\ pages_[FrameOf(last.writes[i][1])].data_ = last.writes[i][2]

\* C4: page-table consistency. A resident page is stored once in the table, its
\* frame holds it, no two frames hold the same page id, and no frame of the free
\* list is the target of a mapping.
C4_PageTableConsistent ==
  /\ \A p \in PageIds :
       Resident(p) => /\ Copies(p) = 1
                      /\ FrameOf(p) \in Frames
                      /\ pages_[FrameOf(p)].page_id_ = p
  /\ \A f, g \in Frames :
       (f # g /\ pages_[f].page_id_ # INVALID_PAGE_ID) => pages_[f].page_id_ # pages_[g].page_id_
  /\ \A p \in PageIds : Resident(p) => FrameOf(p) \notin FreeSet

\* C5: frame partition. Every frame is in exactly one of the states Free (in the
\* free list, pin 0, no record in the replacer), Pinned (pin > 0, not evictable)
\* and Unpinned (pin 0, evictable).
C5_FramePartition ==
  /\ FreeSet \cup PinnedSet \cup EvictableSet = Frames
  /\ FreeSet \cap PinnedSet = {}
  /\ FreeSet \cap EvictableSet = {}
  /\ PinnedSet \cap EvictableSet = {}
  /\ EvictableSet = replacer_.hash_
  /\ \A f \in FreeSet : replacer_.record_[f] = <<>> /\ pages_[f].pin_count_ = 0
  /\ \A f \in Frames : pages_[f].pin_count_ >= 0

\* the three states at once is impossible with two frames; two of them after an
\* eviction: one frame pinned, one unpinned and evictable, none free
C5_Witness ==
  /\ pool_size_ = 2
  /\ last.evicted # INVALID_PAGE_ID
  /\ Cardinality(PinnedSet) = 1
  /\ Cardinality(EvictableSet) = 1

\* the step was a NewPgImp, or a FetchPgImp of a page that was not resident, and
\* it returned a frame
Acquired ==
  /\ last'.ok
  /\ \/ Step("new_page")
     \/ Step("fetch_page") /\ ~Resident(last'.page_id)

\* C6: dirty write-back on eviction. When NewPgImp or FetchPgImp takes a frame
\* from the replacer and the frame is dirty, the call makes exactly one
\* WritePage, of the frame's old page id with the frame's old data, and the
\* frame is clean afterwards; when the frame is clean or comes from the free
\* list the call makes no WritePage and the disk is unchanged.
C6_DirtyWriteBack ==
  [][ Acquired =>
        LET f == last'.frame
        IN IF free_list_ = <<>> /\ pages_[f].is_dirty_
             THEN /\ last'.evicted = pages_[f].page_id_
                  /\ last'.writes = << <<pages_[f].page_id_, pages_[f].data_>> >>
                  /\ disk' = [disk EXCEPT ![pages_[f].page_id_] = pages_[f].data_]
                  /\ ~pages_'[f].is_dirty_
             ELSE /\ last'.writes = <<>>
                  /\ disk' = disk
                  /\ ~pages_'[f].is_dirty_ ]_vars

\* a call has just evicted a dirty page holding non-zero data and written it
C6_Witness ==
  /\ last.op \in {"new_page", "fetch_page"} /\ last.ok
  /\ last.evicted # INVALID_PAGE_ID
  /\ last.writes = << <<last.evicted, 1>> >>
  /\ disk[last.evicted] = 1

\* C7: exhaustion. With the free list empty and no frame evictable, NewPgImp and
\* FetchPgImp of a page that is not resident return no frame and change nothing
\* of the pool.
C7_Exhaustion ==
  [][ ( /\ free_list_ = <<>>
        /\ EvictableSet = {}
        /\ \/ Step("new_page")
           \/ Step("fetch_page") /\ ~Resident(last'.page_id) )
        => /\ ~last'.ok
           /\ last'.frame = NoFrame
           /\ UNCHANGED poolvars ]_vars

\* FetchPgImp of a page that is not resident has just failed with every frame
\* pinned
C7_Witness ==
  /\ last.op = "fetch_page" /\ ~last.ok
  /\ ~Resident(last.page_id)
  /\ PinnedSet = Frames
  /\ pool_size_ = 2

\* C8: UnpinPgImp(p, is_dirty). For p resident with pin_count_ > 0: true, the pin
\* count one less, the frame evictable iff the count reached 0, the dirty flag
\* the OR of is_dirty and the old flag, nothing else of the frame changed.
\* Otherwise: false, and neither the frames nor the replacer change.
C8_Unpin ==
  [][ Step("unpin_page") =>
        LET p == last'.page_id
            f == FrameOf(p)
        IN IF Resident(p) /\ pages_[f].pin_count_ > 0
             THEN /\ last'.ok
                  /\ pages_'[f].pin_count_ = pages_[f].pin_count_ - 1
                  /\ (f \in EvictableSet') <=> (pages_[f].pin_count_ = 1)
                  /\ pages_'[f].is_dirty_ = (last'.is_dirty \/ pages_[f].is_dirty_)
                  /\ pages_'[f].page_id_ = p /\ pages_'[f].data_ = pages_[f].data_
                  /\ \A g \in Frames \ {f} :
                        pages_'[g] = pages_[g] /\ (g \in EvictableSet' <=> g \in EvictableSet)
             ELSE /\ ~last'.ok
                  /\ pages_' = pages_
                  /\ replacer_' = replacer_ ]_vars

\* UnpinPgImp(p, false) has just dropped the last pin of a dirty page: the page
\* is evictable and still dirty
C8_Witness ==
  /\ last.op = "unpin_page" /\ last.ok /\ ~last.is_dirty
  /\ pages_[last.frame].pin_count_ = 0
  /\ pages_[last.frame].is_dirty_
  /\ last.frame \in EvictableSet

\* C9: DeletePgImp(p). Not resident: true and nothing changes. Resident and
\* pinned: false and nothing changes. Resident with pin count 0: true, p leaves
\* the page table, the frame leaves the replacer (size one less, no history), is
\* reset to INVALID_PAGE_ID / pin 0 / clean and joins the free list.
C9_Delete ==
  [][ \A p \in PageIds : (Step("delete_page") /\ last'.page_id = p) =>
        LET f == FrameOf(p)
        IN IF ~Resident(p)
             THEN last'.ok /\ UNCHANGED poolvars
             ELSE IF pages_[f].pin_count_ > 0
                    THEN ~last'.ok /\ UNCHANGED poolvars
                    ELSE /\ last'.ok
                         /\ ~Resident(p)'
                         /\ f \notin EvictableSet'
                         /\ f \notin replacer_'.hash_
                         /\ replacer_'.record_[f] = <<>>
                         /\ LRUKReplacer_Size(replacer_') = LRUKReplacer_Size(replacer_) - 1
                         /\ pages_'[f].page_id_ = INVALID_PAGE_ID
                         /\ pages_'[f].pin_count_ = 0
                         /\ ~pages_'[f].is_dirty_
                         /\ f \in FreeSet' ]_vars

\* DeletePgImp has just freed the frame of a resident, unpinned page
C9_Witness ==
  /\ last.op = "delete_page" /\ last.ok /\ last.frame # NoFrame
  /\ ~Resident(last.page_id)
  /\ last.frame \in FreeSet

\* C10: FlushPgImp(p). Resident: one WritePage of the frame's data under p, dirty
\* or not, the flag cleared, true, and pin count, page table, free list and
\* replacer unchanged. Not resident: false, no write, nothing changes. A
\* FlushPgImp(p) right after a FlushPgImp(p) leaves the disk as it was.
C10_Flush ==
  [][ Step("flush_page") =>
        LET p == last'.page_id
            f == FrameOf(p)
        IN /\ IF Resident(p)
                THEN /\ last'.ok
                     /\ last'.writes = << <<p, pages_[f].data_>> >>
                     /\ disk' = [disk EXCEPT ![p] = pages_[f].data_]
                     /\ pages_' = [pages_ EXCEPT ![f].is_dirty_ = FALSE]
                     /\ UNCHANGED <<page_table_, replacer_, free_list_, next_page_id_>>
                ELSE /\ ~last'.ok
                     /\ last'.writes = <<>>
                     /\ UNCHANGED poolvars
           /\ (last.op = "flush_page" /\ last.page_id = p) => disk' = disk ]_vars

\* FlushPgImp has just written a clean, pinned page
C10_Witness ==
  /\ last.op = "flush_page" /\ last.ok
  /\ last.writes = << <<last.page_id, 1>> >>
  /\ pages_[last.frame].pin_count_ > 0
  /\ disk[last.page_id] = 1

(* =================== LRUKReplacer called on its own ===================== *)

\* the record of a replacer call: the frame named or returned, the flag handed to
\* SetEvictable, Evict's result, whether the call came back (FALSE: a BUSTUB_ASSERT
\* stopped the process), and the frame's access history and Size() when the call
\* was made
ReplacerCall(op, frame_id, set_evictable, ok, returned, history, size) ==
  [op |-> op, frame_id |-> frame_id, set_evictable |-> set_evictable, ok |-> ok,
   returned |-> returned, history |-> history, size |-> size]

\* a replacer of pool_size_ frames and k_ in 1 .. K; the pool around it is not used
InitReplacer ==
  /\ calls = MaxCalls
  /\ pool_size_ \in 1 .. MaxPoolSize
  /\ pages_ = <<>>
  /\ free_list_ = <<>>
  /\ page_table_ = ExtendibleHashTable_New(bucket_size_)
  /\ \E k \in 1 .. K : replacer_ = LRUKReplacer_New(pool_size_, k)
  /\ next_page_id_ = 0
  /\ disk = <<>>
  /\ last = ReplacerCall("init", NoFrame, FALSE, TRUE, TRUE, <<>>, 0)
  /\ written = <<>>
  /\ latch_ = [holder |-> NoThread, before |-> NoThread]
  /\ threads = <<>>
  /\ account = <<>>

\* one more call on the replacer, as long as no assertion has stopped the process
ReplacerCalled ==
  /\ calls > 0
  /\ last.returned
  /\ calls' = calls - 1
  /\ UNCHANGED <<pool_size_, pages_, free_list_, page_table_, next_page_id_, disk, written>>
  /\ UNCHANGED <<latch_, threads, account>>

Replacer_Evict ==
  /\ ReplacerCalled
  /\ LET e == LRUKReplacer_Evict(replacer_)
     IN /\ replacer_' = e.r
        /\ last' = ReplacerCall("evict", e.frame_id, FALSE, e.ok, TRUE,
                                IF e.ok THEN replacer_.record_[e.frame_id] ELSE <<>>,
                                LRUKReplacer_Size(replacer_))

Replacer_RecordAccess(frame_id) ==
  /\ ReplacerCalled
  /\ replacer_' = LRUKReplacer_RecordAccess(replacer_, frame_id)
  /\ last' = ReplacerCall("record_access", frame_id, FALSE, TRUE, TRUE, replacer_.record_[frame_id],
                          LRUKReplacer_Size(replacer_))

\* BUSTUB_ASSERT(!record_[frame_id].empty(), ...) stops the process for a frame
\* without history
Replacer_SetEvictable(frame_id, set_evictable) ==
  /\ ReplacerCalled
  /\ IF replacer_.record_[frame_id] = <<>>
       THEN /\ replacer_' = replacer_
            /\ last' = ReplacerCall("set_evictable", frame_id, set_evictable, FALSE, FALSE, <<>>,
                                    LRUKReplacer_Size(replacer_))
       ELSE /\ replacer_' = LRUKReplacer_SetEvictable(replacer_, frame_id, set_evictable)
            /\ last' = ReplacerCall("set_evictable", frame_id, set_evictable, TRUE, TRUE,
                                    replacer_.record_[frame_id], LRUKReplacer_Size(replacer_))

Replacer_Remove(frame_id) ==
  /\ ReplacerCalled
  /\ replacer_' = LRUKReplacer_Remove(replacer_, frame_id)
  /\ last' = ReplacerCall("remove", frame_id, FALSE, TRUE, TRUE, replacer_.record_[frame_id],
                          LRUKReplacer_Size(replacer_))

NextReplacer ==
  \/ Replacer_Evict
  \/ \E f \in Frames : Replacer_RecordAccess(f)
  \/ \E f \in Frames, b \in BOOLEAN : Replacer_SetEvictable(f, b)
  \/ \E f \in Frames : Replacer_Remove(f)

SpecReplacer == InitReplacer /\ [][NextReplacer]_vars

\* the timestamp of the k_-th most recent access of frame f
KthRecent(r, f) == r.record_[f][Len(r.record_[f]) - r.k_ + 1]
\* the evictable frames with fewer than k_ accesses
UnderK(r) == {f \in r.hash_ : Len(r.record_[f]) < r.k_}
\* the frames with a history and evictable = true
Tracked(r) == {f \in 0 .. (r.replacer_size_ - 1) : r.record_[f] # <<>> /\ f \in r.hash_}

\* C11: LRU-K victim, finite case. When every evictable frame has at least k_
\* accesses, Evict returns the evictable frame whose k_-th most recent access is
\* the oldest (timestamps are distinct, so there is one), for every k_ >= 1.
C11_EvictOldestKth ==
  [][ ( /\ Step("evict")
        /\ replacer_.hash_ # {}
        /\ UnderK(replacer_) = {} )
        => /\ last'.ok
           /\ last'.frame_id \in replacer_.hash_
           /\ \A g \in replacer_.hash_ :
                 KthRecent(replacer_, last'.frame_id) <= KthRecent(replacer_, g) ]_vars

\* C12: LRU-K victim, under-k case. Evict returns no frame exactly when no frame
\* is evictable, and otherwise an evictable frame; when some evictable frame has
\* fewer than k_ accesses since its history was last cleared, the frame returned
\* is one of those, the one with the earliest first access.
C12_EvictUnderK ==
  [][ Step("evict") =>
        IF replacer_.hash_ = {}
          THEN ~last'.ok
          ELSE /\ last'.ok
               /\ last'.frame_id \in replacer_.hash_
               /\ UnderK(replacer_) # {} =>
                    /\ last'.frame_id \in UnderK(replacer_)
                    /\ \A g \in UnderK(replacer_) :
                          replacer_.record_[last'.frame_id][1] <= replacer_.record_[g][1] ]_vars

\* Evict has just returned a frame with one access, k_ = 2, while a frame with two
\* accesses stays evictable
C12_Witness ==
  /\ last.op = "evict" /\ last.ok
  /\ replacer_.k_ = 2
  /\ Len(last.history) = 1
  /\ \E g \in replacer_.hash_ : Len(replacer_.record_[g]) >= 2

\* C13: replacer size. Size() is the number of frames with a non-empty history
\* and evictable = true; SetEvictable changes it by +1 / -1 on a change of the flag
\* and by 0 otherwise; RecordAccess leaves it; an Evict that returns a frame and a
\* Remove of an evictable frame take exactly 1 off.
C13_Size ==
  [][ LET f == last'.frame_id
          size == LRUKReplacer_Size(replacer_)
          size_after == LRUKReplacer_Size(replacer_')
      IN /\ size = Cardinality(Tracked(replacer_))
         /\ size_after = Cardinality(Tracked(replacer_'))
         /\ (Step("set_evictable") /\ last'.returned) =>
               size_after - size =
                 IF last'.set_evictable /\ f \notin replacer_.hash_ THEN 1
                 ELSE IF ~last'.set_evictable /\ f \in replacer_.hash_ THEN -1
                 ELSE 0
         /\ Step("record_access") => size_after = size
         /\ (Step("evict") /\ last'.ok) => size_after = size - 1
         /\ (Step("remove") /\ f \in replacer_.hash_) => size_after = size - 1 ]_vars

\* SetEvictable(f, true) has just returned for a frame that was evictable
\* already: the size was 1 and is 1
C13_Witness ==
  /\ last.op = "set_evictable" /\ last.returned /\ last.set_evictable
  /\ last.frame_id \in replacer_.hash_
  /\ last.size = 1
  /\ LRUKReplacer_Size(replacer_) = 1

\* C16: Remove(frame_id). Of an evictable frame: the history is cleared, the frame
\* is no longer evictable, the size is one less. Of a frame without history:
\* nothing changes. Of a frame with a history that is not evictable: an assertion
\* stops the call, it does not return with the history kept.
C16_Remove ==
  [][ Step("remove") =>
        LET f == last'.frame_id
        IN IF f \in replacer_.hash_
             THEN /\ last'.returned
                  /\ replacer_'.record_[f] = <<>>
                  /\ f \notin replacer_'.hash_
                  /\ LRUKReplacer_Size(replacer_') = LRUKReplacer_Size(replacer_) - 1
             ELSE IF replacer_.record_[f] = <<>>
                    THEN last'.returned /\ replacer_' = replacer_
                    ELSE ~last'.returned ]_vars

(* ================ ExtendibleHashTable called on its own ================= *)

Keys == 0 .. MaxKey
\* two values: the table copies and compares values and never looks into them
Values == {0, 1}
NoValue == -1

\* the record of a hash table call: key, value handed in or found, the bool
\* returned, whether the call came back, the map the calls so far describe, and
\* for a Remove whether that map held the key when the call was made
HashCall(op, key, value, ok, returned, map, stored) ==
  [op |-> op, key |-> key, value |-> value, ok |-> ok, returned |-> returned,
   map |-> map, stored |-> stored]

\* an empty table with buckets of 1 .. MaxBucketSize pairs; the pool around it is not used
InitHash ==
  /\ calls = 0
  /\ pool_size_ = 0
  /\ pages_ = <<>>
  /\ free_list_ = <<>>
  /\ \E b \in 1 .. MaxBucketSize : page_table_ = ExtendibleHashTable_New(b)
  /\ replacer_ = LRUKReplacer_New(0, K)
  /\ next_page_id_ = 0
  /\ disk = <<>>
  /\ last = HashCall("init", 0, NoValue, TRUE, TRUE, [k \in Keys |-> NoValue], FALSE)
  /\ written = <<>>
  /\ latch_ = [holder |-> NoThread, before |-> NoThread]
  /\ threads = <<>>
  /\ account = <<>>

\* one more call on the table, as long as every call so far has come back
HashCalled ==
  /\ last.returned
  /\ UNCHANGED <<calls, pool_size_, pages_, free_list_, replacer_, next_page_id_, disk, written>>
  /\ UNCHANGED <<latch_, threads, account>>

Hash_Find(key) ==
  /\ HashCalled
  /\ LET find == ExtendibleHashTable_Find(page_table_, key)
     IN /\ last' = HashCall("find", key, find.value, find.found, TRUE, last.map, FALSE)
        /\ UNCHANGED page_table_

Hash_Remove(key) ==
  /\ HashCalled
  /\ LET rm == ExtendibleHashTable_Remove(page_table_, key)
     IN /\ page_table_' = rm.t
        /\ last' = HashCall("remove", key, NoValue, rm.ok, TRUE,
                         [last.map EXCEPT ![key] = NoValue], last.map[key] # NoValue)

\* an Insert whose loop does not end leaves the caller inside the call
Hash_Insert(key, value) ==
  /\ HashCalled
  /\ IF Insert_Returns(page_table_, key)
       THEN /\ page_table_' = ExtendibleHashTable_Insert(page_table_, key, value)
            /\ last' = HashCall("insert", key, value, TRUE, TRUE, [last.map EXCEPT ![key] = value], FALSE)
       ELSE /\ page_table_' = InsertLoop(page_table_, key, MaxSplits)
            /\ last' = HashCall("insert", key, value, FALSE, FALSE, last.map, FALSE)

NextHash ==
  \/ \E k \in Keys : Hash_Find(k)
  \/ \E k \in Keys : Hash_Remove(k)
  \/ \E k \in Keys, v \in Values : Hash_Insert(k, v)

SpecHash == InitHash /\ [][NextHash]_vars

\* the buckets the directory refers to
DirBuckets(t) == {t.dir_[i] : i \in DOMAIN t.dir_}
\* the directory slots that point to bucket b
SlotsOf(t, b) == {i \in DOMAIN t.dir_ : t.dir_[i] = b}
\* the keys stored in bucket b
KeysOf(t, b) == {t.buckets[b].list_[i][1] : i \in 1 .. Len(t.buckets[b].list_)}
\* how many pairs of the table carry this key
StoredCopies(t, key) ==
  LET Hits(b) == Cardinality({i \in 1 .. Len(t.buckets[b].list_) : t.buckets[b].list_[i][1] = key})
      RECURSIVE Sum(_)
      Sum(S) == IF S = {} THEN 0 ELSE LET b == CHOOSE x \in S : TRUE IN Hits(b) + Sum(S \ {b})
  IN Sum(DirBuckets(t))

\* the table stores exactly the pairs of map, each once
MapAgrees(t, map) ==
  \A k \in Keys :
    /\ ExtendibleHashTable_Find(t, k).found = (map[k] # NoValue)
    /\ ExtendibleHashTable_Find(t, k).value = map[k]
    /\ StoredCopies(t, k) = IF map[k] # NoValue THEN 1 ELSE 0

\* C14: the table is a map. As long as every Insert has come back, Find(k) gives
\* the value of the last Insert(k, .) that no Remove(k) followed and nothing
\* otherwise, Remove(k) returns true iff k was stored, and no key is stored
\* twice, whatever doublings and splits have happened.
C14_Map ==
  last.returned =>
    /\ MapAgrees(page_table_, last.map)
    /\ last.op = "find" =>
         /\ last.ok = (last.map[last.key] # NoValue)
         /\ last.value = last.map[last.key]
    /\ last.op = "remove" => (last.ok = last.stored)

\* a Find has just returned the second value given to a key, in a table that
\* has doubled its directory and from which another key has been removed
C14_Witness ==
  /\ last.op = "find" /\ last.ok /\ last.value = 1
  /\ page_table_.global_depth_ >= 1
  /\ \E k \in Keys : k # last.key /\ last.map[k] = NoValue /\ page_table_.num_buckets_ >= 2
  /\ Cardinality({k \in Keys : last.map[k] # NoValue}) >= 2

\* C15: Insert of a key that is stored updates the value in place: the call
\* returns, Find gives the new value, and global_depth_, num_buckets_, the
\* directory and every local depth are as before, also when the key's bucket is
\* full and when bucket_size_ is 1.
C15_InsertPresent ==
  [][ ( /\ Step("insert")
        /\ ExtendibleHashTable_Find(page_table_, last'.key).found )
        => /\ last'.returned
           /\ ExtendibleHashTable_Find(page_table_', last'.key).value = last'.value
           /\ page_table_'.global_depth_ = page_table_.global_depth_
           /\ page_table_'.num_buckets_ = page_table_.num_buckets_
           /\ page_table_'.dir_ = page_table_.dir_
           /\ Len(page_table_'.buckets) = Len(page_table_.buckets)
           /\ \A b \in 1 .. Len(page_table_.buckets) :
                 page_table_'.buckets[b].depth_ = page_table_.buckets[b].depth_ ]_vars

\* the directory and the buckets of t are well formed
WellFormed(t) ==
  /\ DOMAIN t.dir_ = 0 .. (2 ^ t.global_depth_ - 1)
  /\ t.num_buckets_ = Cardinality(DirBuckets(t))
  /\ \A i \in DOMAIN t.dir_ :
       LET b == t.dir_[i]
           d == t.buckets[b].depth_
       IN /\ d <= t.global_depth_
          /\ \A j \in DOMAIN t.dir_ : (t.dir_[j] = b) <=> (j % (2 ^ d) = i % (2 ^ d))
          /\ \A k \in KeysOf(t, b) : k % (2 ^ d) = i % (2 ^ d)
          /\ Len(t.buckets[b].list_) <= t.bucket_size_

\* C17: directory well-formedness after calls that have come back. The directory
\* has 2^global_depth_ slots; a bucket's local depth is at most global_depth_;
\* the slots of a bucket are the slots equal modulo 2^local depth; a key stored
\* in the bucket of slot i equals i modulo 2^local depth; no bucket holds more
\* than bucket_size_ pairs; num_buckets_ counts the buckets of the directory;
\* global_depth_, the local depths and num_buckets_ never go down, and Remove
\* leaves them and the directory as they are.
C17_WellFormed ==
  [][ /\ last.op = "init" => WellFormed(page_table_)
      /\ last'.returned => WellFormed(page_table_')
      /\ page_table_'.global_depth_ >= page_table_.global_depth_
      /\ page_table_'.num_buckets_ >= page_table_.num_buckets_
      /\ \A i \in DOMAIN page_table_.dir_ :
            page_table_'.buckets[page_table_'.dir_[i]].depth_
              >= page_table_.buckets[page_table_.dir_[i]].depth_
      /\ Step("remove") =>
            /\ page_table_'.dir_ = page_table_.dir_
            /\ page_table_'.global_depth_ = page_table_.global_depth_
            /\ page_table_'.num_buckets_ = page_table_.num_buckets_ ]_vars

\* a Remove has just emptied a bucket of a table with four buckets at depth 2:
\* the bucket stays in the directory
C17_Witness ==
  /\ last.op = "remove" /\ last.ok
  /\ page_table_.global_depth_ = 2
  /\ page_table_.num_buckets_ = 4
  /\ \E b \in DirBuckets(page_table_) : page_table_.buckets[b].list_ = <<>>

\* the table after Insert of the hashes 0b00, 0b10, 0b01 into an empty table with
\* buckets of two pairs
GrowthPrefix(v1, v2, v3) ==
  ExtendibleHashTable_Insert(
    ExtendibleHashTable_Insert(
      ExtendibleHashTable_Insert(ExtendibleHashTable_New(2), 0, v1), 2, v2), 1, v3)

\* the step is the Insert of the hash 0b11 after 0b00, 0b10, 0b01 into an empty table
GrowthLastInsert ==
  /\ Step("insert") /\ last'.key = 3
  /\ \E v1, v2, v3 \in Values : page_table_ = GrowthPrefix(v1, v2, v3)

\* C18 as stated: with bucket_size_ = 2, the Inserts of 0b00, 0b10, 0b01, 0b11
\* into an empty table end with four buckets, global_depth_ = 2 and one key in
\* each bucket.
C18_GrowthFourBuckets ==
  [][ GrowthLastInsert =>
        /\ page_table_'.global_depth_ = 2
        /\ page_table_'.num_buckets_ = 4
        /\ \A b \in DirBuckets(page_table_') : Len(page_table_'.buckets[b].list_) = 1 ]_vars

\* C18, amended: with bucket_size_ = 2, the Inserts of 0b00, 0b10, 0b01, 0b11 into
\* an empty table end with two buckets, global_depth_ = 1 and two keys in each
\* bucket: 0b00 and 0b10 in the bucket of slot 0, 0b01 and 0b11 in that of slot 1.
C18_GrowthTwoBuckets ==
  [][ GrowthLastInsert =>
        /\ last'.returned
        /\ page_table_'.global_depth_ = 1
        /\ page_table_'.num_buckets_ = 2
        /\ Cardinality(DirBuckets(page_table_')) = 2
        /\ KeysOf(page_table_', page_table_'.dir_[0]) = {0, 2}
        /\ KeysOf(page_table_', page_table_'.dir_[1]) = {1, 3} ]_vars

\* the four Inserts have just been made: the table stores 0, 2, 1, 3 in the
\* order of the calls and nothing has been removed
C18_Witness ==
  /\ last.op = "insert" /\ last.key = 3 /\ last.returned
  /\ page_table_.bucket_size_ = 2
  /\ \E v1, v2, v3 \in Values :
       page_table_ = ExtendibleHashTable_Insert(GrowthPrefix(v1, v2, v3), 3, last.value)

\* the depth at which the keys of bucket b that go with key leave room for it
RECURSIVE RoomDepth(_, _, _, _)
RoomDepth(t, b, key, d) ==
  IF Cardinality({x \in KeysOf(t, b) : x % (2 ^ d) = key % (2 ^ d)}) < t.bucket_size_
       \/ d > MaxSplits + t.global_depth_
    THEN d
    ELSE RoomDepth(t, b, key, d + 1)

\* C19: Insert with overflow ends. For a key that is not stored and whose bucket
\* is full of keys not all equal to it in every bit, Insert returns; it has
\* split once per local depth from the bucket's depth to the first depth at
\* which the keys going with the new key leave room, adding one bucket per split
\* and doubling the directory only past global_depth_; the key is stored and
\* Find returns it, and no other key changes.
C19_InsertOverflow ==
  [][ \A k \in Keys :
        ( /\ Step("insert") /\ last'.key = k
          /\ ~ExtendibleHashTable_Find(page_table_, k).found
          /\ Bucket_IsFull(page_table_.buckets[page_table_.dir_[IndexOf(page_table_, k)]]) )
          => LET b == page_table_.dir_[IndexOf(page_table_, k)]
                 ld == page_table_.buckets[b].depth_
                 d == RoomDepth(page_table_, b, k, ld + 1)
                 b_after == page_table_'.dir_[IndexOf(page_table_', k)]
             IN /\ last'.returned
                /\ page_table_'.num_buckets_ = page_table_.num_buckets_ + (d - ld)
                /\ page_table_'.buckets[b_after].depth_ = d
                /\ page_table_'.global_depth_ =
                     IF d > page_table_.global_depth_ THEN d ELSE page_table_.global_depth_
                /\ ExtendibleHashTable_Find(page_table_', k) = [found |-> TRUE, value |-> last'.value]
                /\ \A x \in Keys \ {k} :
                      ExtendibleHashTable_Find(page_table_', x) = ExtendibleHashTable_Find(page_table_, x) ]_vars

\* Insert of the hash 0b10 into a table with buckets of one pair that stores
\* 0b00 has just come back: it has split twice, to depth 2, and stored the key
C19_Witness ==
  /\ last.op = "insert" /\ last.returned /\ last.key = 2
  /\ page_table_.bucket_size_ = 1
  /\ \E v \in Values :
       page_table_ = ExtendibleHashTable_Insert(
                       ExtendibleHashTable_Insert(ExtendibleHashTable_New(1), 0, v), 2, last.value)
  /\ page_table_.num_buckets_ = 3
  /\ page_table_.global_depth_ = 2

(* ============ BufferPoolManagerInstance called by several threads ======= *)

\* the calls made and not yet run
Pending == Cardinality({t \in Threads : threads[t].pc # "idle"})

\* thread t makes a call and arrives at std::scoped_lock<std::mutex> lock(latch_)
T_Call(t, op, page_id, is_dirty) ==
  /\ threads[t].pc = "idle"
  /\ (MaxCalls - calls) + Pending < MaxThreadCalls
  /\ threads' = [threads EXCEPT ![t] =
                   [pc |-> "waiting", op |-> op, page_id |-> page_id, is_dirty |-> is_dirty]]
  /\ UNCHANGED <<calls, pool_size_, poolvars, last, written, latch_, account>>

\* the scoped_lock is taken: latch_ was free
T_Lock(t) ==
  /\ threads[t].pc = "waiting"
  /\ latch_.holder = NoThread
  /\ latch_' = [latch_ EXCEPT !.holder = t]
  /\ threads' = [threads EXCEPT ![t].pc = "locked"]
  /\ UNCHANGED <<calls, pool_size_, poolvars, last, written, account>>

\* the pins of the pages as the call that has just run leaves them: a new
\* resident page starts at 1, a hit adds 1, an UnpinPgImp that returns true takes
\* 1 off and notes frame and thread, a page that leaves the pool starts over; a
\* call that takes a frame marks the unpins noted before it, a DeletePgImp that
\* frees the page marks the unpin of that page
Accounted(t, was_resident) ==
  LET c == last'
      took == c.ok /\ c.op \in {"new_page", "fetch_page"} /\ ~was_resident
      Mark(a) == IF took THEN [a EXCEPT !.acquired = TRUE] ELSE a
  IN [p \in PageIds |->
        IF ~c.ok THEN account[p]
        ELSE IF c.op \in {"new_page", "fetch_page"} /\ p = c.page_id
               THEN IF was_resident
                      THEN [account[p] EXCEPT !.count = @ + 1]
                      ELSE [Mark(account[p]) EXCEPT !.count = 1]
        ELSE IF took /\ p = c.evicted
               THEN [Mark(account[p]) EXCEPT !.count = 0]
        ELSE IF c.op = "unpin_page" /\ p = c.page_id
               THEN [count |-> account[p].count - 1, frame |-> c.frame, by |-> t,
                     acquired |-> FALSE, deleted |-> FALSE]
        ELSE IF c.op = "delete_page" /\ p = c.page_id /\ c.frame # NoFrame
               THEN [account[p] EXCEPT !.count = 0, !.deleted = TRUE]
        ELSE Mark(account[p])]

\* the end of the call: the scoped_lock goes out of scope
T_Return(t, was_resident) ==
  /\ latch_' = [holder |-> NoThread, before |-> t]
  /\ threads' = [threads EXCEPT ![t] = Idle]
  /\ account' = Accounted(t, was_resident)

\* the body of the call of thread t runs with latch_ held
T_NewPg(t) ==
  /\ latch_.holder = t /\ threads[t].pc = "locked" /\ threads[t].op = "new_page"
  /\ NewPgImp
  /\ T_Return(t, FALSE)

T_FetchPg(t) ==
  /\ latch_.holder = t /\ threads[t].pc = "locked" /\ threads[t].op = "fetch_page"
  /\ FetchPgImp(threads[t].page_id)
  /\ T_Return(t, ExtendibleHashTable_Find(page_table_, threads[t].page_id).found)

T_UnpinPg(t) ==
  /\ latch_.holder = t /\ threads[t].pc = "locked" /\ threads[t].op = "unpin_page"
  /\ UnpinPgImp(threads[t].page_id, threads[t].is_dirty)
  /\ T_Return(t, TRUE)

T_DeletePg(t) ==
  /\ latch_.holder = t /\ threads[t].pc = "locked" /\ threads[t].op = "delete_page"
  /\ DeletePgImp(threads[t].page_id)
  /\ T_Return(t, TRUE)

T_FlushPg(t) ==
  /\ latch_.holder = t /\ threads[t].pc = "locked" /\ threads[t].op = "flush_page"
  /\ FlushPgImp(threads[t].page_id)
  /\ T_Return(t, TRUE)

T_FlushAllPgs(t) ==
  /\ latch_.holder = t /\ threads[t].pc = "locked" /\ threads[t].op = "flush_all_pages"
  /\ FlushAllPgsImp
  /\ T_Return(t, TRUE)

NextThreads ==
  \/ \E t \in Threads : T_Call(t, "new_page", INVALID_PAGE_ID, FALSE)
  \/ \E t \in Threads, p \in PageIds : T_Call(t, "fetch_page", p, FALSE)
  \/ \E t \in Threads, p \in PageIds, d \in BOOLEAN : T_Call(t, "unpin_page", p, d)
  \/ \E t \in Threads, p \in PageIds : T_Call(t, "flush_page", p, FALSE)
  \/ \E t \in Threads : T_Call(t, "flush_all_pages", INVALID_PAGE_ID, FALSE)
  \/ \E t \in Threads, p \in PageIds : T_Call(t, "delete_page", p, FALSE)
  \/ \E t \in Threads : T_Lock(t)
  \/ \E t \in Threads : T_NewPg(t)
  \/ \E t \in Threads : T_FetchPg(t)
  \/ \E t \in Threads : T_UnpinPg(t)
  \/ \E t \in Threads : T_FlushPg(t)
  \/ \E t \in Threads : T_FlushAllPgs(t)
  \/ \E t \in Threads : T_DeletePg(t)

SpecThreads == Init /\ [][NextThreads]_vars

\* the pool changes only in the step in which the holder of latch_ runs its call
\* from its first to its last statement
LatchOrder ==
  poolvars' # poolvars =>
    /\ latch_.holder \in Threads
    /\ threads[latch_.holder].pc = "locked"
    /\ threads'[latch_.holder].pc = "idle"
    /\ latch_'.holder = NoThread
    /\ latch_'.before = latch_.holder
    /\ \A u \in Threads \ {latch_.holder} : threads'[u] = threads[u]

\* every resident page has the pins handed out minus the pins given back, and no
\* frame has a negative pin count
PinsAccounted ==
  /\ \A p \in PageIds : Resident(p) => pages_[FrameOf(p)].pin_count_ = account[p].count
  /\ \A f \in Frames : pages_[f].pin_count_ >= 0

\* the step is a FetchPgImp(p) by a thread other than the one whose UnpinPgImp(p)
\* returned true before
FetchAfterUnpin(p) ==
  /\ Step("fetch_page") /\ last'.page_id = p
  /\ account[p].by \in Threads
  /\ latch_.holder \in Threads \ {account[p].by}

\* C20 as stated: calls take effect one at a time in the order they take latch_;
\* a resident page's pin count is the number of NewPgImp / FetchPgImp calls that
\* returned its frame minus the UnpinPgImp calls that returned true, since it
\* became resident, and is never negative; a FetchPgImp(p) after another thread's
\* UnpinPgImp(p), with no call that took a frame in between, returns the frame
\* the page was unpinned in.
C20_PinAccounting ==
  [][ /\ LatchOrder
      /\ PinsAccounted /\ PinsAccounted'
      /\ \A p \in PageIds :
            (FetchAfterUnpin(p) /\ ~account[p].acquired)
              => (last'.ok /\ last'.frame = account[p].frame) ]_vars

\* C20, amended: the same, for a FetchPgImp(p) after another thread's
\* UnpinPgImp(p) with neither a call that took a frame nor a DeletePgImp(p) that
\* freed the page in between.
C20_PinAccountingNoDelete ==
  [][ /\ LatchOrder
      /\ PinsAccounted /\ PinsAccounted'
      /\ \A p \in PageIds :
            (FetchAfterUnpin(p) /\ ~account[p].acquired /\ ~account[p].deleted)
              => (last'.ok /\ last'.frame = account[p].frame) ]_vars

\* thread 2 has just fetched, into the frame it was unpinned in, a page that
\* thread 1 unpinned, while thread 1 waits for latch_ with its next call
C20_Witness ==
  /\ last.op = "fetch_page" /\ last.ok
  /\ latch_ = [holder |-> NoThread, before |-> 2]
  /\ account[last.page_id].by = 1
  /\ account[last.page_id].frame = last.frame
  /\ ~account[last.page_id].acquired /\ ~account[last.page_id].deleted
  /\ account[last.page_id].count = 1
  /\ threads[1].pc = "waiting"

====
